---- MODULE Spec2Model ----
(***************************************************************************)
(* Model of server_host.py: a Flask application that stores TUF metadata   *)
(* and content-addressed targets in GridFS and serves them over HTTP.      *)
(*                                                                         *)
(* The GridFS bucket is a set of files, each with its own ObjectId; the    *)
(* bucket puts no uniqueness constraint on the "filename" field.  Every    *)
(* request is handled in one client slot.  A handler runs as a sequence of *)
(* steps, one per GridFS call (the only shared state), each step carrying  *)
(* the local computation that precedes its call, so that the calls of      *)
(* concurrent requests interleave in every order.  Any GridFS call may     *)
(* raise (connectivity); a call that raises has no effect on the bucket.   *)
(* A finished request shows its response in pc = "done"; the response is   *)
(* sent (Respond) before any other step is taken, which loses no           *)
(* behaviour of the bucket because sending touches no shared state.        *)
(* Strings are TLA+ strings: keys are built with \o and inspected with     *)
(* SubSeq, as the f-strings and str.endswith of the source do.             *)
(***************************************************************************)
EXTENDS Naturals, Sequences, FiniteSets, TLC

VARIABLES
    store,      \* the GridFS bucket fs: a set of files [id, filename, data]
    nextId,     \* the next ObjectId GridFS hands out
    pc,         \* per client: the position of its request handler
    req,        \* per client: the request being (or last) handled, with two
                \* history fields: before, the bucket when an upload arrived,
                \* and alone, no other upload was in flight during this one
    loc,        \* per client: the handler's local variables
    resp,       \* per client: the response of the request just finished
    overlap,    \* history: some upload began while another was in flight
    published   \* history: an upload of timestamp.json has returned 201

vars == <<store, nextId, pc, req, loc, resp, overlap, published>>

(* ------------------------------ bounds --------------------------------- *)

\* Uploads that may reach the bucket in one behaviour.
MaxUploads == 2

\* Uploads of metadata/timestamp.json are explored one upload further, so that a
\* rotation can follow two earlier ones.
MaxRotations == 3

\* Concurrent request slots.
Clients == {"c1", "c2"}

\* Uploaded payloads (the bytes b"v1" and b"v2").
Payloads == {"v1", "v2"}

(* ------------------------------ strings -------------------------------- *)

StartsWith(s, pre) ==
    /\ Len(s) >= Len(pre)
    /\ SubSeq(s, 1, Len(pre)) = pre

\* str.endswith
EndsWith(s, suf) ==
    /\ Len(s) >= Len(suf)
    /\ SubSeq(s, Len(s) - Len(suf) + 1, Len(s)) = suf

HasSlash(s) == \E i \in 1..Len(s) : SubSeq(s, i, i) = "/"

\* s without its first n characters
Drop(s, n) == SubSeq(s, n + 1, Len(s))

(* ------------------------------ naming --------------------------------- *)

\* hashlib.sha256(file_data).hexdigest(), on the payloads of the model
Sha256Hex(data) ==
    CASE data = "v1" -> "3bfc269594ef649228e9a74bab00f042efc91d5acc6fbee31a382e80d42388fe"
      [] data = "v2" -> "fb04dcb6970e4c3d1873de51fd5a50d7bb46b3383113602665c350ec40b5f990"

\* Mutant of TargetKey: the digest is left out of the key.
TargetKeyNoDigest(category, filename, data) == category \o "/" \o filename

\* hash_filename = f"{category}/{sha256_hash}.{filename}"
TargetKey(category, filename, data) ==
    category \o "/" \o Sha256Hex(data) \o "." \o filename

\* filename = f"{category}/{file.filename}"
MetadataKey(category, filename) == category \o "/" \o filename

\* Mutant of ExistingName: the pre-delete looks up a target's key.
ExistingNameOfTarget ==
    "targets/3bfc269594ef649228e9a74bab00f042efc91d5acc6fbee31a382e80d42388fe.a.bin"

\* The name whose file a metadata upload looks up and deletes before its put.
ExistingName == "metadata/timestamp.json"

\* is_metadata = filename.endswith(".json")
IsMetadata(filename) == EndsWith(filename, ".json")

\* Mutant of LookupKey: every name is looked up under metadata/.
LookupKeyMetadataOnly(filename) == "metadata/" \o filename

\* prefix = "metadata" if is_metadata else "targets"; f"{prefix}/{filename}"
LookupKey(filename) ==
    (IF IsMetadata(filename) THEN "metadata" ELSE "targets") \o "/" \o filename

\* content_type = "application/json" if is_metadata else "application/octet-stream"
MetadataContentType(is_metadata) ==
    IF is_metadata THEN "application/json" ELSE "application/octet-stream"

\* Mutant of TargetLookupKey: the catch-all prefixes the path like the
\* category-inferred route does.
TargetLookupKeyPrefixed(path) == "targets/" \o path

\* get_target looks the path up verbatim: fs.find_one({"filename": filename})
TargetLookupKey(path) == path

\* get_target: content_type="application/octet-stream"
TargetContentType == "application/octet-stream"

\* Mutant of ValidCategory: the category is not validated.
AnyCategory(category) == TRUE

\* category not in ["metadata", "targets"] is rejected
ValidCategory(category) == category \in {"metadata", "targets"}

(* ------------------------------ inputs --------------------------------- *)

\* form.get('category') of a request that carries no category field
MissingCategory == "<None>"

Categories == {"metadata", "targets", "foo", MissingCategory}

\* A filename that is itself the key of a stored target.
KeyLikeName == TargetKey("targets", "a.bin", "v1")

MetadataNames == {"timestamp.json", "root.json"}

TargetNames == {"a.bin", "root.json", KeyLikeName}

\* The multipart forms of the upload requests: every payload under every
\* filename of its category, and the forms no category accepts.
UploadForms ==
    [category : {"metadata"}, filename : MetadataNames, data : Payloads]
    \cup [category : {"targets"}, filename : TargetNames, data : Payloads]
    \cup [category : Categories \ {"metadata", "targets"},
          filename : {"timestamp.json"}, data : {"v1"}]

\* URL paths of GET requests, without the leading slash.
GetPaths ==
    {"metadata/timestamp.json", "metadata/root.json",
     "metadata/does-not-exist.json", "metadata/a.bin",
     "metadata/" \o Sha256Hex("v1") \o ".a.bin",
     "a.bin", "root.json",
     TargetKey("targets", "a.bin", "v1"),
     TargetKey("targets", "a.bin", "v2"),
     TargetKey("targets", "root.json", "v1")}

(* ------------------------------ routing -------------------------------- *)

\* The URL map: "/", "/repository/info" and "/metadata/<filename>" (one
\* segment, no slash) are matched before the catch-all "/<path:filename>".
Route(path) ==
    IF path = "" THEN "home"
    ELSE IF path = "repository/info" THEN "repository_info"
    ELSE IF /\ StartsWith(path, "metadata/")
            /\ Len(path) > Len("metadata/")
            /\ ~HasSlash(Drop(path, Len("metadata/")))
         THEN "get_metadata"
    ELSE "get_target"

(* ------------------------------ GridFS --------------------------------- *)

\* "No file": find_one's None, and the locals before they are assigned.
NoFile == [id |-> 0, filename |-> "", data |-> ""]

\* fs.find_one({"filename": name}): a file of that name, or None.  The query
\* has no sort, so with several files of one name any of them may be returned.
FindOne(s, name) ==
    IF \E f \in s : f.filename = name
    THEN {f \in s : f.filename = name}
    ELSE {NoFile}

\* Mutant of Delete: the existing file is not deleted.
DeleteNothing(s, id) == s

\* fs.delete(file_id): removes the file of that id; no error when it is gone.
Delete(s, id) == {f \in s : f.id # id}

\* fs.put(data, filename=name): always a new file, under a fresh ObjectId.
\* Mutant of Put: a put under a name already stored appends to the stored bytes.
PutAppending(s, id, name, data) ==
    s \cup {[id |-> id, filename |-> name,
              data |-> IF \E f \in s : f.filename = name
                       THEN (CHOOSE f \in s : f.filename = name).data \o data
                       ELSE data]}

\* fs.put(data, filename=name): always a new file under a new id, whatever
\* files already carry the name.
Put(s, id, name, data) == s \cup {[id |-> id, filename |-> name, data |-> data]}

\* file.read(): the chunks of a file deleted since find_one are gone.
Readable(s, file) == \E f \in s : f.id = file.id

\* str(e) of the exception file.read() raises when the chunks are gone.
CorruptText == "CorruptGridFile"

\* The text of the exception a failing GridFS call raises.
StoreErrorText == "ServerSelectionTimeoutError"

(* ------------------------------ state ---------------------------------- *)

NoReq == [method |-> "", endpoint |-> "", path |-> "", filename |-> "",
          category |-> "", data |-> "", before |-> {}, alone |-> TRUE]

NoResp == [status |-> 0, content_type |-> "", body |-> "", description |-> "",
           logged |-> ""]

\* pc values at which an upload has a GridFS call pending
UploadPcs == {"up_delete", "up_put"}

\* pc values at which a retrieval has its file.read() pending
ReadPcs == {"gm_read", "gt_read"}

Init ==
    /\ store = {}
    /\ nextId = 1
    /\ pc = [p \in Clients |-> "idle"]
    /\ req = [p \in Clients |-> NoReq]
    /\ loc = [p \in Clients |-> NoFile]
    /\ resp = [p \in Clients |-> NoResp]
    /\ overlap = FALSE
    /\ published = FALSE

\* A new request is taken up by a free slot, once the finished ones are sent.
Accepts(p) ==
    /\ pc[p] = "idle"
    /\ \A q \in Clients : pc[q] # "done"

\* A running handler takes its next step.
Runs(p, at) ==
    /\ pc[p] = at
    /\ \A q \in Clients : pc[q] # "done"

GetReq(endpoint, path, filename) ==
    [method |-> "GET", endpoint |-> endpoint, path |-> path,
     filename |-> filename, category |-> "", data |-> "",
     before |-> {}, alone |-> TRUE]

PostReq(form) ==
    [method |-> "POST", endpoint |-> "upload_file", path |-> "upload",
     filename |-> form.filename, category |-> form.category, data |-> form.data,
     before |-> store,
     alone |-> \A q \in Clients : pc[q] \notin UploadPcs]

\* The requests after the upload of form has arrived in slot p: an upload that
\* is in flight is no longer alone.
Arrived(p, form) ==
    [q \in Clients |->
        IF q = p THEN PostReq(form)
        ELSE IF ValidCategory(form.category) /\ pc[q] \in UploadPcs
        THEN [req[q] EXCEPT !.alone = FALSE]
        ELSE req[q]]

\* The handler returns (or aborts) with response r; its locals are gone.
Finish(p, r) ==
    /\ resp' = [resp EXCEPT ![p] = r]
    /\ loc' = [loc EXCEPT ![p] = NoFile]
    /\ pc' = [pc EXCEPT ![p] = "done"]

\* jsonify(message), status
JsonOk(status, message) ==
    [status |-> status, content_type |-> "application/json",
     body |-> message, description |-> "", logged |-> ""]

\* abort(status, description=...)
Abort(status, description) ==
    [status |-> status, content_type |-> "text/html",
     body |-> "", description |-> description, logged |-> ""]

\* Mutant of Abort500: the exception is logged and the request answered 200.
Abort500Swallowed(description, error) ==
    [status |-> 200, content_type |-> "text/html",
     body |-> "", description |-> description, logged |-> error]

\* except Exception as e: logging.exception(... str(e)); abort(500, description)
Abort500(description, error) ==
    [status |-> 500, content_type |-> "text/html",
     body |-> "", description |-> description, logged |-> error]

\* Response(file.read(), content_type=...)
FileOk(file, content_type) ==
    [status |-> 200, content_type |-> content_type,
     body |-> file.data, description |-> "", logged |-> ""]

(* ------------------------------ GET / ---------------------------------- *)

Home(p) ==
    /\ Accepts(p)
    /\ Route("") = "home"
    /\ req' = [req EXCEPT ![p] = GetReq("home", "", "")]
    /\ Finish(p, JsonOk(200, "TUF server"))
    /\ UNCHANGED <<store, nextId, overlap, published>>

RepositoryInfo(p) ==
    /\ Accepts(p)
    /\ Route("repository/info") = "repository_info"
    /\ req' = [req EXCEPT ![p] = GetReq("repository_info", "repository/info", "")]
    /\ Finish(p, JsonOk(200, "TUF Repository with GridFS"))
    /\ UNCHANGED <<store, nextId, overlap, published>>

(* ----------------------- GET /metadata/<filename> ---------------------- *)

\* Mutant of NotFoundMessage: the two categories are swapped.
NotFoundMessageSwapped(is_metadata, filename) ==
    (IF is_metadata THEN "Target" ELSE "Metadata")
    \o " file " \o filename \o " not found"

NotFoundMessage(is_metadata, filename) ==
    (IF is_metadata THEN "Metadata" ELSE "Target")
    \o " file " \o filename \o " not found"

\* The request arrives and runs up to and including fs.find_one.
GetMetadata(p, path) ==
    /\ Accepts(p)
    /\ Route(path) = "get_metadata"
    /\ LET filename == Drop(path, Len("metadata/")) IN
        /\ req' = [req EXCEPT ![p] = GetReq("get_metadata", path, filename)]
        /\ \/ \E file \in FindOne(store, LookupKey(filename)) :
                IF file = NoFile
                THEN Finish(p, Abort(404,
                        NotFoundMessage(IsMetadata(filename), filename)))
                ELSE /\ loc' = [loc EXCEPT ![p] = file]
                     /\ pc' = [pc EXCEPT ![p] = "gm_read"]
                     /\ UNCHANGED resp
           \/ Finish(p, Abort500("Internal server error", StoreErrorText))
    /\ UNCHANGED <<store, nextId, overlap, published>>

GetMetadataRead(p) ==
    /\ Runs(p, "gm_read")
    /\ IF Readable(store, loc[p])
       THEN Finish(p, FileOk(loc[p],
                MetadataContentType(IsMetadata(req[p].filename))))
       ELSE Finish(p, Abort500("Internal server error", CorruptText))
    /\ UNCHANGED <<store, nextId, req, overlap, published>>

(* -------------------------- GET /<path:filename> ----------------------- *)

\* The request arrives and runs up to and including fs.find_one.
GetTarget(p, path) ==
    /\ Accepts(p)
    /\ Route(path) = "get_target"
    /\ req' = [req EXCEPT ![p] = GetReq("get_target", path, path)]
    /\ \/ \E file \in FindOne(store, TargetLookupKey(path)) :
            IF file = NoFile
            THEN Finish(p, Abort(404, "Target file " \o path \o " not found"))
            ELSE /\ loc' = [loc EXCEPT ![p] = file]
                 /\ pc' = [pc EXCEPT ![p] = "gt_read"]
                 /\ UNCHANGED resp
       \/ Finish(p, Abort500(StoreErrorText, StoreErrorText))
    /\ UNCHANGED <<store, nextId, overlap, published>>

\* Mutant of GetTargetRead: the file served is deleted from the bucket.
GetTargetReadConsuming(p) ==
    /\ Runs(p, "gt_read")
    /\ IF Readable(store, loc[p])
       THEN Finish(p, FileOk(loc[p], TargetContentType))
       ELSE Finish(p, Abort500(CorruptText, CorruptText))
    /\ store' = Delete(store, loc[p].id)
    /\ UNCHANGED <<nextId, req, overlap, published>>

GetTargetRead(p) ==
    /\ Runs(p, "gt_read")
    /\ IF Readable(store, loc[p])
       THEN Finish(p, FileOk(loc[p], TargetContentType))
       ELSE Finish(p, Abort500(CorruptText, CorruptText))
    /\ UNCHANGED <<store, nextId, req, overlap, published>>

(* ------------------------------ POST /upload --------------------------- *)

\* Uploads that have put a file or are still to put one.
UploadsStarted ==
    (nextId - 1) + Cardinality({q \in Clients : pc[q] \in UploadPcs})

\* How many uploads the exploration lets start before an upload of this form.
UploadBound(form) ==
    IF form.category = "metadata" /\ form.filename = "timestamp.json"
    THEN MaxRotations
    ELSE MaxUploads

UploadMessage(filename, category) ==
    "File " \o filename \o " uploaded to " \o category

\* The key the upload puts its file under.
UploadKey(r) ==
    IF r.category = "targets"
    THEN TargetKey(r.category, r.filename, r.data)
    ELSE MetadataKey(r.category, r.filename)

\* fs.put(...) and the 201 that follows it.
PutAndReturn(p, r) ==
    /\ store' = Put(store, nextId, UploadKey(r), r.data)
    /\ nextId' = nextId + 1
    /\ published' = (published \/ UploadKey(r) = "metadata/timestamp.json")
    /\ Finish(p, JsonOk(201, UploadMessage(r.filename, r.category)))

\* The request arrives and runs up to and including its first GridFS call:
\* none for a rejected category, fs.put for a target, fs.find_one for metadata.
Upload(p, form) ==
    /\ Accepts(p)
    /\ req' = Arrived(p, form)
    /\ IF ~ValidCategory(form.category)
       THEN /\ Finish(p, Abort(400, "Invalid category. Use 'metadata' or 'targets'."))
            /\ UNCHANGED <<store, nextId, overlap, published>>
       ELSE /\ UploadsStarted < UploadBound(form)
            /\ overlap' = (overlap \/ \E q \in Clients : pc[q] \in UploadPcs)
            /\ IF form.category = "targets"
               THEN \/ PutAndReturn(p, PostReq(form))
                    \/ /\ Finish(p, Abort500(StoreErrorText, StoreErrorText))
                       /\ UNCHANGED <<store, nextId, published>>
               ELSE IF form.category = "metadata"
               THEN /\ \/ \E existing_file \in FindOne(store, ExistingName) :
                            /\ loc' = [loc EXCEPT ![p] = existing_file]
                            /\ pc' = [pc EXCEPT ![p] =
                                  IF existing_file = NoFile
                                  THEN "up_put" ELSE "up_delete"]
                            /\ UNCHANGED resp
                       \/ Finish(p, Abort500(StoreErrorText, StoreErrorText))
                    /\ UNCHANGED <<store, nextId, published>>
               ELSE \* neither branch is taken: the view returns None and
                    \* Flask answers 500
                    /\ Finish(p, Abort(500, "Internal Server Error"))
                    /\ UNCHANGED <<store, nextId, published>>

UploadDelete(p) ==
    /\ Runs(p, "up_delete")
    /\ store' = Delete(store, loc[p].id)
    /\ pc' = [pc EXCEPT ![p] = "up_put"]
    /\ UNCHANGED <<nextId, req, loc, resp, overlap, published>>

UploadPut(p) ==
    /\ Runs(p, "up_put")
    /\ PutAndReturn(p, req[p])
    /\ UNCHANGED <<req, overlap>>

(* ------------------------------ store errors --------------------------- *)

\* The pending fs.delete or fs.put of an upload raises.
UploadFault(p) ==
    /\ \E at \in UploadPcs : Runs(p, at)
    /\ Finish(p, Abort500(StoreErrorText, StoreErrorText))
    /\ UNCHANGED <<store, nextId, req, overlap, published>>

\* The pending file.read() of a retrieval raises for want of the store.
ReadFault(p) ==
    /\ \E at \in ReadPcs : Runs(p, at)
    /\ Finish(p, Abort500(
            IF pc[p] = "gm_read" THEN "Internal server error" ELSE StoreErrorText,
            StoreErrorText))
    /\ UNCHANGED <<store, nextId, req, overlap, published>>

(* ------------------------------ responses ------------------------------ *)

\* The response is sent and the slot is free again.
Respond(p) ==
    /\ pc[p] = "done"
    /\ pc' = [pc EXCEPT ![p] = "idle"]
    /\ req' = [req EXCEPT ![p] = NoReq]
    /\ resp' = [resp EXCEPT ![p] = NoResp]
    /\ UNCHANGED <<store, nextId, loc, overlap, published>>

(* ------------------------------ specification -------------------------- *)

Next ==
    \E p \in Clients :
        \/ Home(p)
        \/ RepositoryInfo(p)
        \/ \E path \in GetPaths : GetMetadata(p, path)
        \/ GetMetadataRead(p)
        \/ \E path \in GetPaths : GetTarget(p, path)
        \/ GetTargetRead(p)
        \/ \E form \in UploadForms : Upload(p, form)
        \/ UploadDelete(p)
        \/ UploadPut(p)
        \/ UploadFault(p)
        \/ ReadFault(p)
        \/ Respond(p)

Spec == Init /\ [][Next]_vars

\* Rotation of the timestamp role alone: uploads of timestamp.json and
\* retrievals of it.
RotateForms ==
    {form \in UploadForms :
        form.category = "metadata" /\ form.filename = "timestamp.json"}

NextRotate ==
    \E p \in Clients :
        \/ \E form \in RotateForms : Upload(p, form)
        \/ UploadDelete(p)
        \/ UploadPut(p)
        \/ GetMetadata(p, "metadata/timestamp.json")
        \/ GetMetadataRead(p)
        \/ Respond(p)

SpecRotate == Init /\ [][NextRotate]_vars

(* ------------------------------ properties ----------------------------- *)

\* The files stored under a name.
Named(s, name) == {f \in s : f.filename = name}

Done(p) == pc[p] = "done"

\* No GridFS call of the request just finished raised for want of the store.
StoreAnswered(r) == r.logged # StoreErrorText

TimestampUpload(r) ==
    /\ r.method = "POST"
    /\ r.category = "metadata"
    /\ r.filename = "timestamp.json"

\* C1: in an execution whose uploads do not overlap, right after an upload of
\* metadata timestamp.json with payload P has returned 201, the bucket holds
\* exactly one file named metadata/timestamp.json and its bytes are P.
C1_SingleSlotAfterUpload ==
    \A p \in Clients :
        (Done(p) /\ ~overlap /\ TimestampUpload(req[p]) /\ resp[p].status = 201)
        => \E f \in store :
            /\ Named(store, "metadata/timestamp.json") = {f}
            /\ f.data = req[p].data

\* A second upload of timestamp.json has returned 201 with payload v2: the
\* file of the first upload is gone and the only file is the second one.
C1_Witness ==
    /\ ~overlap
    /\ nextId = 3
    /\ \E p \in Clients :
        /\ Done(p) /\ TimestampUpload(req[p]) /\ resp[p].status = 201
        /\ req[p].data = "v2"
        /\ store = {[id |-> 2, filename |-> "metadata/timestamp.json",
                     data |-> "v2"]}

\* C2 (as claimed): in every reachable state, under every interleaving of
\* concurrent uploads, at most one file is named metadata/timestamp.json.
C2_AtMostOneTimestamp ==
    Cardinality(Named(store, "metadata/timestamp.json")) <= 1

\* C3 (as claimed): no step of a metadata upload whose filename is not
\* timestamp.json removes or alters the files named metadata/timestamp.json.
C3_NoPreDeleteForOtherRoles ==
    [][\A p \in Clients :
        ( /\ pc[p] \in UploadPcs
          /\ pc'[p] # pc[p]
          /\ req[p].category = "metadata"
          /\ req[p].filename # "timestamp.json" )
        => Named(store', "metadata/timestamp.json")
            = Named(store, "metadata/timestamp.json")]_vars

\* C4 (as claimed): once an upload of timestamp.json has returned 201, a
\* GET /metadata/timestamp.json that arrives while later uploads of
\* timestamp.json run returns 200 with an uploaded payload, and never 404.
C4_AtomicReplace ==
    [][\A p \in Clients :
        ( /\ published
          /\ pc[p] # "done" /\ pc'[p] = "done"
          /\ req'[p].method = "GET"
          /\ req'[p].path = "metadata/timestamp.json"
          /\ StoreAnswered(resp'[p]) )
        => /\ resp'[p].status = 200
           /\ resp'[p].body \in Payloads]_vars

\* A catch-all GET of the content-hashed key of (filename, data) has finished
\* while a file of that key is stored: it returned 200 with exactly the data.
C5_GetReturnsBytes ==
    \A p \in Clients : \A n \in TargetNames : \A d \in Payloads :
        ( /\ Done(p)
          /\ req[p].endpoint = "get_target"
          /\ req[p].path = "targets/" \o Sha256Hex(d) \o "." \o n
          /\ Named(store, req[p].path) # {}
          /\ StoreAnswered(resp[p]) )
        => /\ resp[p].status = 200
           /\ resp[p].body = d

\* C5: no step of any request removes or alters a file stored under a
\* targets/ name, and once such a file is stored every catch-all GET of its key
\* (whose GridFS calls do not raise) returns 200 with exactly its bytes.
C5_TargetsImmutable ==
    [][ /\ \A f \in store : StartsWith(f.filename, "targets/") => f \in store'
        /\ C5_GetReturnsBytes' ]_vars

\* A target was uploaded, one more upload followed, and a catch-all GET of the
\* target's key returned its bytes.
C5_Witness ==
    /\ nextId = 3
    /\ \E p \in Clients :
        /\ Done(p)
        /\ req[p].endpoint = "get_target"
        /\ req[p].path = "targets/" \o Sha256Hex("v1") \o ".a.bin"
        /\ resp[p].status = 200
        /\ resp[p].body = "v1"
        /\ \E f \in store : f.id = 1 /\ f.filename = req[p].path

\* C6: an upload whose category is missing or is neither metadata nor targets
\* ends at once with 400 and leaves the bucket as it was.
C6_InvalidCategoryRejected ==
    [][\A p \in Clients :
        ( /\ pc[p] = "idle"
          /\ req'[p].method = "POST"
          /\ req'[p].category \notin {"metadata", "targets"} )
        => /\ pc'[p] = "done"
           /\ resp'[p].status = 400
           /\ store' = store]_vars

\* An upload without a category was rejected while timestamp.json is stored.
C6_Witness ==
    /\ Named(store, "metadata/timestamp.json") # {}
    /\ \E p \in Clients :
        /\ Done(p)
        /\ req[p].method = "POST"
        /\ req[p].category = MissingCategory
        /\ resp[p].status = 400

\* C7: the file a target upload stores is named
\* targets/ + hex(sha256(bytes)) + . + filename whatever the bucket holds, so
\* equal bytes under one filename give one key, and target files of different
\* bytes never share a key.
C7_ContentAddressed ==
    /\ \A p \in Clients :
        ( /\ Done(p)
          /\ req[p].method = "POST"
          /\ req[p].category = "targets"
          /\ resp[p].status = 201 )
        => \E f \in store :
            /\ f.id = nextId - 1
            /\ f.filename =
                "targets/" \o Sha256Hex(req[p].data) \o "." \o req[p].filename
            /\ f.data = req[p].data
    /\ \A f, g \in store :
        ( /\ StartsWith(f.filename, "targets/")
          /\ StartsWith(g.filename, "targets/")
          /\ f.data # g.data )
        => f.filename # g.filename

\* The same bytes were uploaded twice under a.bin: both files have one key.
C7_Witness ==
    /\ \E p \in Clients :
        /\ Done(p)
        /\ req[p].method = "POST"
        /\ req[p].category = "targets"
        /\ req[p].filename = "a.bin"
        /\ resp[p].status = 201
    /\ \E f, g \in store :
        /\ f.id # g.id
        /\ f.filename = g.filename
        /\ StartsWith(f.filename, "targets/")

\* The catch-all GET of the content-hashed key of a stored target returns
\* exactly its bytes as application/octet-stream.
C8_KeyReturnsBytes ==
    \A p \in Clients : \A n \in TargetNames : \A d \in Payloads :
        ( /\ Done(p)
          /\ req[p].endpoint = "get_target"
          /\ StoreAnswered(resp[p])
          /\ req[p].path = "targets/" \o Sha256Hex(d) \o "." \o n
          /\ Named(store, req[p].path) # {} )
        => /\ resp[p].status = 200
           /\ resp[p].body = d
           /\ resp[p].content_type = "application/octet-stream"

\* A catch-all GET of the bare filename n that arrives when a target uploaded
\* under n is stored ends at once with 404.
C8_BareNameFails(n) ==
    \A p \in Clients :
        ( /\ pc[p] = "idle"
          /\ req'[p].endpoint = "get_target"
          /\ req'[p].path = n
          /\ StoreAnswered(resp'[p])
          /\ \E d \in Payloads :
                Named(store, "targets/" \o Sha256Hex(d) \o "." \o n) # {} )
        => /\ pc'[p] = "done"
           /\ resp'[p].status = 404

\* C8 (as claimed): after a target upload of bytes B under any filename f, the
\* catch-all GET /f returns 404 and the catch-all GET /targets/<sha256(B)>.f
\* returns exactly B as application/octet-stream.
C8_RoundTrip ==
    [][ /\ \A n \in TargetNames : C8_BareNameFails(n)
        /\ C8_KeyReturnsBytes' ]_vars

\* C8 (amended): the same, the 404 of GET /f being claimed only for a filename
\* f that does not itself begin with targets/ or metadata/.
C8_RoundTripPlainNames ==
    [][ /\ \A n \in TargetNames :
            (~StartsWith(n, "targets/") /\ ~StartsWith(n, "metadata/"))
            => C8_BareNameFails(n)
        /\ C8_KeyReturnsBytes' ]_vars

\* a.bin is stored as a target and the catch-all GET /a.bin returned 404.
C8_Witness ==
    \E p \in Clients :
        /\ Done(p)
        /\ req[p].endpoint = "get_target"
        /\ req[p].path = "a.bin"
        /\ resp[p].status = 404
        /\ \E d \in Payloads :
            Named(store, "targets/" \o Sha256Hex(d) \o ".a.bin") # {}

\* The name a /metadata/<name> request asks for.
RequestedName(r) == SubSeq(r.path, Len("metadata/") + 1, Len(r.path))

\* The storage key the retrieval r is specified to resolve to.
ResolvedKey(r) ==
    IF r.endpoint = "get_metadata"
    THEN IF EndsWith(RequestedName(r), ".json")
         THEN "metadata/" \o RequestedName(r)
         ELSE "targets/" \o RequestedName(r)
    ELSE r.path

\* The content type a hit of the retrieval r is specified to be served with.
ResolvedContentType(r) ==
    IF r.endpoint = "get_metadata" /\ EndsWith(RequestedName(r), ".json")
    THEN "application/json"
    ELSE "application/octet-stream"

Retrieval(r) ==
    r.method = "GET" /\ r.endpoint \in {"get_metadata", "get_target"}

\* C9: a retrieval answers from its resolved key and with its resolved content
\* type: /metadata/<name> from metadata/<name> as application/json when the name
\* ends in .json and from targets/<name> as application/octet-stream otherwise;
\* the catch-all from the path verbatim, always as application/octet-stream.
\* A 200 carries the bytes of a file of that key, a 404 means no file has it.
C9_Resolution ==
    \A p \in Clients :
        (Done(p) /\ Retrieval(req[p]))
        => /\ resp[p].status = 200 =>
                /\ resp[p].content_type = ResolvedContentType(req[p])
                /\ \E f \in Named(store, ResolvedKey(req[p])) :
                        f.data = resp[p].body
           /\ resp[p].status = 404 => Named(store, ResolvedKey(req[p])) = {}

\* The catch-all served a stored name ending in .json as octet-stream.
C9_Witness ==
    \E p \in Clients :
        /\ Done(p)
        /\ req[p].endpoint = "get_target"
        /\ req[p].path = "targets/" \o Sha256Hex("v1") \o ".root.json"
        /\ resp[p].status = 200
        /\ resp[p].content_type = "application/octet-stream"

\* The description of the 404 the retrieval r is specified to give.
ResolvedNotFound(r) ==
    IF r.endpoint = "get_metadata"
    THEN (IF EndsWith(RequestedName(r), ".json") THEN "Metadata" ELSE "Target")
         \o " file " \o RequestedName(r) \o " not found"
    ELSE "Target file " \o r.path \o " not found"

\* C10: a retrieval that arrives while no file has its resolved key (and whose
\* find_one does not raise) ends at once with 404 and the message of its route.
C10_Missing404 ==
    [][\A p \in Clients :
        ( /\ pc[p] = "idle"
          /\ Retrieval(req'[p])
          /\ Named(store, ResolvedKey(req'[p])) = {}
          /\ StoreAnswered(resp'[p]) )
        => /\ pc'[p] = "done"
           /\ resp'[p].status = 404
           /\ resp'[p].description = ResolvedNotFound(req'[p])]_vars

\* GET /metadata/does-not-exist.json was answered 404 with its message.
C10_Witness ==
    \E p \in Clients :
        /\ Done(p)
        /\ req[p].path = "metadata/does-not-exist.json"
        /\ resp[p].status = 404
        /\ resp[p].description = "Metadata file does-not-exist.json not found"

\* C11: in every reachable state a stored name is unique in the bucket: no two
\* files carry the same filename, whatever uploads were made (a target uploaded
\* again with the same bytes and filename, a metadata role uploaded again).
C11_UniqueNames ==
    \A f, g \in store : f.filename = g.filename => f = g

\* The retrieval of path, as a request.
Probe(path) == [method |-> "GET", endpoint |-> Route(path), path |-> path]

\* What a retrieval r can be answered from the bucket s when no GridFS call
\* raises: 404 when no file has its resolved key, else 200 with the bytes of a
\* file of that key and its resolved content type.
Answers(s, r) ==
    IF Named(s, ResolvedKey(r)) = {}
    THEN {[status |-> 404, body |-> "", content_type |-> "text/html"]}
    ELSE {[status |-> 200, body |-> f.data,
           content_type |-> ResolvedContentType(r)] :
             f \in Named(s, ResolvedKey(r))}

Answer(r) ==
    [status |-> r.status, body |-> r.body, content_type |-> r.content_type]

\* The step is a target upload answered 201 whose bytes and filename were
\* already stored by an earlier upload.
TargetReupload(p) ==
    /\ pc[p] = "idle"
    /\ req'[p].method = "POST"
    /\ req'[p].category = "targets"
    /\ resp'[p].status = 201
    /\ \E f \in store :
          /\ f.filename = "targets/" \o Sha256Hex(req'[p].data)
                            \o "." \o req'[p].filename
          /\ f.data = req'[p].data

\* C12: uploading a target again with the same bytes and filename changes no
\* answer: for every path of either retrieval route, the answers (status, bytes,
\* content type) the bucket can give after the second upload are those it could
\* give before it; and these are the answers retrievals get: one that finds no
\* file ends 404, one that finds a file and reads it ends 200 with that file's
\* bytes and the content type of its route.
C12_ReuploadIdempotent ==
    [][\A p \in Clients :
        /\ TargetReupload(p)
           => \A path \in GetPaths :
                Answers(store', Probe(path)) = Answers(store, Probe(path))
        /\ ( /\ pc[p] = "idle"
             /\ Retrieval(req'[p])
             /\ StoreAnswered(resp'[p]) )
           => IF pc'[p] = "done"
              THEN Answer(resp'[p]) \in Answers(store, req'[p])
              ELSE loc'[p] \in Named(store, ResolvedKey(req'[p]))
        /\ ( /\ pc[p] \in ReadPcs
             /\ pc'[p] = "done"
             /\ resp'[p].logged = "" )
           => Answer(resp'[p]) =
                [status |-> 200, body |-> loc[p].data,
                 content_type |-> ResolvedContentType(req[p])]]_vars

\* A target upload of a.bin was answered 201 and the bucket holds two files of
\* its key, both with its bytes.
C12_Witness ==
    \E p \in Clients :
        /\ Done(p)
        /\ req[p].method = "POST"
        /\ req[p].category = "targets"
        /\ req[p].filename = "a.bin"
        /\ resp[p].status = 201
        /\ Cardinality(Named(store, TargetKey("targets", "a.bin", req[p].data))) = 2
        /\ \A f \in Named(store, TargetKey("targets", "a.bin", req[p].data)) :
              f.data = req[p].data

\* A GridFS call of the request in slot p raises in this step.
Raises(p) == resp[p].logged = "" /\ resp'[p].logged # ""

\* C13: on both retrieval routes and on upload, the step in which a GridFS call
\* (find_one, delete, put, read) raises ends the request with 500 and leaves the
\* bucket as the call found it; the request makes no GridFS call afterwards (its
\* only further step sends the response), and a request answered 200 or 201 had
\* no call raise.
C13_StoreFailureEnds500 ==
    [][\A p \in Clients :
        /\ Raises(p)
           => /\ pc'[p] = "done"
              /\ resp'[p].status = 500
              /\ store' = store
              /\ nextId' = nextId
        /\ (Done(p) /\ resp[p].logged # "")
           => \/ pc'[p] = "done" /\ resp'[p] = resp[p]
              \/ pc'[p] = "idle" /\ store' = store /\ nextId' = nextId
        /\ pc'[p] = "done" /\ resp'[p].status \in {200, 201}
           => resp'[p].logged = ""]_vars

\* A timestamp.json upload was answered 500 because its fs.put raised after its
\* fs.delete had removed the earlier file.
C13_Witness ==
    \E p \in Clients :
        /\ Done(p)
        /\ TimestampUpload(req[p])
        /\ resp[p].status = 500
        /\ resp[p].logged = StoreErrorText
        /\ req[p].before # store

\* The request in slot p takes this step.
Steps(p) == pc'[p] # pc[p]

\* C17: no step of a GET request (/, /metadata/<name>, the catch-all,
\* /repository/info) changes the bucket, whether the request ends 200, 404 or
\* 500; a step that adds or removes a file is a step of a POST /upload.
C17_GetLeavesStore ==
    [][/\ \A p \in Clients :
            (Steps(p) /\ (IF pc[p] = "idle" THEN req'[p] ELSE req[p]).method = "GET")
            => store' = store /\ nextId' = nextId
       /\ store' # store
            => \E p \in Clients :
                 /\ Steps(p)
                 /\ pc[p] # "done"
                 /\ req'[p].method = "POST"
                 /\ req'[p].endpoint = "upload_file"]_vars

\* A retrieval of /metadata/timestamp.json ended 500 because the file it found
\* was deleted before it read it, and the bucket holds the file uploaded since.
C17_Witness ==
    \E p \in Clients :
        /\ Done(p)
        /\ req[p].endpoint = "get_metadata"
        /\ resp[p].status = 500
        /\ resp[p].logged = CorruptText
        /\ store # {}

\* C14: an upload that ends in an error, with no other upload in flight while it
\* ran, leaves the bucket as it was when the request arrived; so a timestamp.json
\* upload whose fs.put fails leaves the earlier metadata/timestamp.json stored.
C14_FailedUploadLeavesStore ==
    \A p \in Clients :
        ( /\ Done(p)
          /\ req[p].method = "POST"
          /\ req[p].alone
          /\ resp[p].status >= 400 )
        => store = req[p].before

\* C15: a timestamp.json upload with payload P that arrives when every earlier
\* upload has completed, that runs with no other upload in flight and returns
\* 201, leaves exactly one file named metadata/timestamp.json, with bytes P,
\* however many files of that name the earlier (concurrent) uploads had left.
C15_RotationRestoresSingleSlot ==
    \A p \in Clients :
        ( /\ Done(p)
          /\ TimestampUpload(req[p])
          /\ req[p].alone
          /\ resp[p].status = 201 )
        => /\ Cardinality(Named(store, "metadata/timestamp.json")) = 1
           /\ \A f \in Named(store, "metadata/timestamp.json") :
                 f.data = req[p].data

\* The file put last among the files fs.
Newest(fs) == CHOOSE f \in fs : \A g \in fs : g.id <= f.id

\* C16: in an execution whose uploads do not overlap, a GET /metadata/N for a
\* name N ending in .json that arrives when no upload is in flight and a file
\* named metadata/N is stored reads the bytes of the upload of N made last, also
\* when N was uploaded before with another payload.
C16_ReadYourWrites ==
    [][\A p \in Clients :
        ( /\ pc[p] = "idle"
          /\ req'[p].endpoint = "get_metadata"
          /\ EndsWith(RequestedName(req'[p]), ".json")
          /\ ~overlap
          /\ \A q \in Clients : pc[q] \notin UploadPcs
          /\ Named(store, ResolvedKey(req'[p])) # {}
          /\ StoreAnswered(resp'[p]) )
        => /\ pc'[p] = "gm_read"
           /\ loc'[p].data = Newest(Named(store, ResolvedKey(req'[p]))).data]_vars

====
